---- MODULE Spec2Model ----
(***************************************************************************)
(* Dual mesh: MeshBuilder (point list, boundary points, create) feeding    *)
(* addGhostStructure and TriangleMesh (_update, region circulation).       *)
(*                                                                         *)
(* JavaScript arrays are modelled as functions on 0..n-1, so that the      *)
(* index arithmetic of the source is kept as written.  Coordinates are     *)
(* exact rationals with denominator CoordDen, stored as their numerators.  *)
(***************************************************************************)
EXTENDS Integers, Sequences, FiniteSets, TLC

\* Bounds of the model.
MaxPoints == 5
MaxSteps == 8

\* JavaScript's undefined and NaN, as integers no index or region ever takes.
undefined == -999
NaN == -998

\* Denominator of every coordinate: 1000 * t and (t - 0.5)^2 of
\* addBoundaryPoints are exact in 1/144 for N = 1 and N = 2.
CoordDen == 144

-----------------------------------------------------------------------------
\* JavaScript array primitives.

Len0(a) == Cardinality(DOMAIN a)

Arr(seq) == [i \in 0..(Len(seq) - 1) |-> seq[i + 1]]

\* a[i]: undefined outside the array (and for i = undefined or NaN).
Index(a, i) == IF i \in DOMAIN a THEN a[i] ELSE undefined

\* TypedArray.prototype.at(i): ToIntegerOrInfinity(i), then a negative index
\* counts back from the end.
At(a, i) ==
  LET rel == IF i \in {undefined, NaN} THEN 0 ELSE i
      k == IF rel >= 0 THEN rel ELSE Len0(a) + rel
  IN IF k \in DOMAIN a THEN a[k] ELSE undefined

\* Storing into an Int32Array: undefined and NaN become 0.
ToInt32(v) == IF v \in {undefined, NaN} THEN 0 ELSE v

\* a[i] = v on an Int32Array: a store outside the array is dropped.
SetIndex(a, i, v) == IF i \in DOMAIN a THEN [a EXCEPT ![i] = ToInt32(v)] ELSE a

Concat(a, b) ==
  [i \in 0..(Len0(a) + Len0(b) - 1) |-> IF i < Len0(a) THEN a[i] ELSE b[i - Len0(a)]]

Push(a, v) == Concat(a, [i \in {0} |-> v])

\* a.slice(start)
Slice(a, start) == [i \in 0..(Len0(a) - start - 1) |-> a[i + start]]

\* a.splice(start, deleteCount) as used by the builder: the array that is left.
Splice(a, start, deleteCount) ==
  LET n == Len0(a)
      from == IF start > n THEN n ELSE start
      del == IF deleteCount > n - from THEN n - from ELSE deleteCount
  IN [i \in 0..(n - del - 1) |-> IF i < from THEN a[i] ELSE a[i + del]]

\* new Int32Array(n), with the first entries copied from src (.set(src)).
Int32ArrayFrom(n, src) == [i \in 0..(n - 1) |-> IF i \in DOMAIN src THEN src[i] ELSE 0]

\* The remainder operator of JavaScript (sign of the dividend).
JSRem(a, n) == IF a >= 0 THEN a % n ELSE -((-a) % n)

s_next_s(s) ==
  IF s \in {undefined, NaN} THEN NaN
  ELSE IF JSRem(s, 3) = 2 THEN s - 2 ELSE s + 1

s_prev_s(s) ==
  IF s \in {undefined, NaN} THEN NaN
  ELSE IF JSRem(s, 3) = 0 THEN s + 2 ELSE s - 1

\* (s / 3) | 0
s_to_t(s) ==
  IF s \in {undefined, NaN} THEN 0
  ELSE IF s >= 0 THEN s \div 3 ELSE -((-s) \div 3)

-----------------------------------------------------------------------------
\* Delaunator.from(points): the external triangulator, by its contract.  It
\* returns a Delaunay triangulation of the distinct points (every triangle
\* with the same winding and an empty circumcircle, the unpaired sides being
\* the convex hull), or empty arrays when the points admit no triangle.  The
\* order of the triangles and the first side of each are its own choice.

Orient(p, q, w) == (q[1] - p[1]) * (w[2] - p[2]) - (q[2] - p[2]) * (w[1] - p[1])

InCircleDet(a, b, c, d) ==
  LET ax == a[1] - d[1]   ay == a[2] - d[2]
      bx == b[1] - d[1]   by == b[2] - d[2]
      cx == c[1] - d[1]   cy == c[2] - d[2]
      a2 == ax * ax + ay * ay
      b2 == bx * bx + by * by
      c2 == cx * cx + cy * cy
  IN ax * (by * c2 - b2 * cy) - ay * (bx * c2 - b2 * cx) + a2 * (bx * cy - by * cx)

StrictlyInside(a, b, c, d) == Orient(a, b, c) * InCircleDet(a, b, c, d) > 0

\* Triangles <<a, b, c>> (a the least index) wound so that the outside of a
\* side is to its left, with no point strictly inside the circumcircle.
DelaunayTriangles(pts) ==
  {t \in (DOMAIN pts) \X (DOMAIN pts) \X (DOMAIN pts) :
     /\ t[1] < t[2] /\ t[1] < t[3] /\ t[2] # t[3]
     /\ Orient(pts[t[1]], pts[t[2]], pts[t[3]]) < 0
     /\ \A d \in DOMAIN pts : ~StrictlyInside(pts[t[1]], pts[t[2]], pts[t[3]], pts[d])}

TriEdges(t) == {<<t[1], t[2]>>, <<t[2], t[3]>>, <<t[3], t[1]>>}

AllEdges(S) == UNION {TriEdges(t) : t \in S}

HullEdges(S) == {e \in AllEdges(S) : <<e[2], e[1]>> \notin AllEdges(S)}

RECURSIVE RingReach(_, _, _)
RingReach(B, p, n) ==
  IF n = 0 THEN {}
  ELSE LET nxt == {e \in B : e[1] = p}
       IN IF nxt = {} THEN {p}
          ELSE {p} \cup RingReach(B, (CHOOSE e \in nxt : TRUE)[2], n - 1)

IsTriangulation(pts, S) ==
  LET used == UNION {{t[1], t[2], t[3]} : t \in S}
      B == HullEdges(S)
  IN /\ S # {}
     /\ \A t1, t2 \in S : t1 # t2 => TriEdges(t1) \cap TriEdges(t2) = {}
     /\ \A i, j \in used : i # j => pts[i] # pts[j]
     /\ \A i \in DOMAIN pts : \E j \in used : pts[j] = pts[i]
     /\ \A e \in B : \A x \in DOMAIN pts : Orient(pts[e[1]], pts[e[2]], pts[x]) <= 0
     /\ \A e1, e2 \in B : e1[1] = e2[1] => e1 = e2
     /\ \A e \in B : RingReach(B, e[1], Cardinality(B)) = {f[1] : f \in B}

Triangulations(pts) ==
  LET DT == DelaunayTriangles(pts)
  IN IF DT = {} THEN {{}}
     ELSE {S \in SUBSET DT : IsTriangulation(pts, S)}

TriKey(t, n) == (t[1] * n + t[2]) * n + t[3]

RECURSIVE SortTris(_, _)
SortTris(S, n) ==
  IF S = {} THEN <<>>
  ELSE LET m == CHOOSE t \in S : \A u \in S : TriKey(t, n) <= TriKey(u, n)
       IN <<m>> \o SortTris(S \ {m}, n)

Rotate(t, r) == <<t[1 + (r % 3)], t[1 + ((r + 1) % 3)], t[1 + ((r + 2) % 3)]>>

\* The triangles of S in one of the orders the triangulator may produce:
\* sorted, reversed or not, cyclically shifted by k, triangle j rotated by
\* a + b * j sides.
TriOrder(S, n, k, rev, a, b) ==
  LET sorted == SortTris(S, n)
      T == Len(sorted)
  IN [j \in 0..(T - 1) |->
        Rotate(sorted[1 + (((IF rev THEN T - 1 - j ELSE j) + k) % T)], a + b * j)]

FlatTriangles(order) == [s \in 0..(3 * Len0(order) - 1) |-> order[s \div 3][1 + (s % 3)]]

PairHalfedges(tri) ==
  [s \in DOMAIN tri |->
     LET mates == {s2 \in DOMAIN tri :
                     tri[s2] = tri[s_next_s(s)] /\ tri[s_next_s(s2)] = tri[s]}
     IN IF mates = {} THEN -1 ELSE CHOOSE s2 \in mates : TRUE]

Delaunator(pts) ==
  UNION {
    IF S = {} THEN {[triangles |-> <<>>, halfedges |-> <<>>]}
    ELSE {[triangles |-> FlatTriangles(TriOrder(S, Len0(pts), k, rev, a, b)),
           halfedges |-> PairHalfedges(FlatTriangles(TriOrder(S, Len0(pts), k, rev, a, b)))] :
            <<k, rev, a, b>> \in (0..(Cardinality(S) - 1)) \X BOOLEAN \X (0..2) \X (0..2)}
    : S \in Triangulations(pts)}

-----------------------------------------------------------------------------
\* MeshBuilder.ts: boundary points and the ghost structure.

Size == 1000

\* addBoundaryPoints(spacing, size), coordinates in 1/CoordDen:
\* t = (i + 0.5) / (N + 1), w = size * t, offset = (t - 0.5)^2.
addBoundaryPoints(spacing, size) ==
  LET N == (size + spacing - 1) \div spacing
      w(i) == (CoordDen * size * (2 * i + 1)) \div (2 * (N + 1))
      offset(i) == (CoordDen * (2 * i - N) * (2 * i - N)) \div (4 * (N + 1) * (N + 1))
      far(i) == CoordDen * size - offset(i)
      four(i) == <<<<offset(i), w(i)>>, <<far(i), w(i)>>, <<w(i), offset(i)>>, <<w(i), far(i)>>>>
  IN [j \in 0..(4 * (N + 1) - 1) |-> four(j \div 4)[1 + (j % 4)]]

\* The ghost point [500, 500].
GhostPoint == <<500 * CoordDen, 500 * CoordDen>>

r_newvertex_never(_r_vertex) == _r_vertex

\* const r_newvertex = _r_vertex.concat([[500, 500]])
r_newvertex(_r_vertex) == Concat(_r_vertex, Arr(<<GhostPoint>>))

k_no_wrap(numSolidSides, i, numUnpairedSides) == numSolidSides + 3 * i + 4

k_side2(numSolidSides, i, numUnpairedSides) ==
  numSolidSides + ((3 * i + 5) % (3 * numUnpairedSides))

\* let k = numSolidSides + ((3 * i + 4) % (3 * numUnpairedSides))
GhostK(numSolidSides, i, numUnpairedSides) ==
  numSolidSides + ((3 * i + 4) % (3 * numUnpairedSides))

side1_start_end(s_newstart_r, s) == Index(s_newstart_r, s_next_s(s))

\* s_newstart_r[ghost_s + 1] = s_newstart_r[s]
side1_start(s_newstart_r, s) == Index(s_newstart_r, s)

next_by_index(r_unpaired_s, s_newstart_r, s) ==
  LET lower == {u \in {r_unpaired_s[r] : r \in DOMAIN r_unpaired_s} : u < s}
      all == {r_unpaired_s[r] : r \in DOMAIN r_unpaired_s}
      pick(S) == CHOOSE u \in S : \A v \in S : v <= u
  IN IF all = {} THEN undefined ELSE IF lower = {} THEN pick(all) ELSE pick(lower)

\* s = r_unpaired_s[s_newstart_r[s_next_s(s)]]
next_unpaired(r_unpaired_s, s_newstart_r, s) ==
  Index(r_unpaired_s, Index(s_newstart_r, s_next_s(s)))

\* The unpaired sides of the scan (lines 127-133).
UnpairedSides(_halfedges) == {s \in DOMAIN _halfedges : _halfedges[s] = -1}

MaxOf(S) == CHOOSE u \in S : \A v \in S : v <= u

\* r_unpaired_s[_triangles[s]] = s for every unpaired s in rising order: a
\* sparse array holding, for a region, the last unpaired side that begins there.
Scan_r_unpaired_s(_triangles, _halfedges) ==
  LET U == UnpairedSides(_halfedges)
  IN [r \in {_triangles[s] : s \in U} |-> MaxOf({s \in U : _triangles[s] = r})]

Scan_firstUnpairedEdge(_halfedges) ==
  IF UnpairedSides(_halfedges) = {} THEN -1 ELSE MaxOf(UnpairedSides(_halfedges))

\* One pass of the loop body (lines 146-157) for the i-th unpaired side s.
GhostBody(i, s, numSolidSides, numUnpairedSides, ghost_r, st) ==
  LET ghost_s == numSolidSides + 3 * i
      opp1 == SetIndex(st.s_newopposite_s, s, ghost_s)
      opp2 == SetIndex(opp1, ghost_s, s)
      start1 == SetIndex(st.s_newstart_r, ghost_s, Index(st.s_newstart_r, s_next_s(s)))
      start2 == SetIndex(start1, ghost_s + 1, side1_start(start1, s))
      start3 == SetIndex(start2, ghost_s + 2, ghost_r)
      k == GhostK(numSolidSides, i, numUnpairedSides)
      opp3 == SetIndex(opp2, ghost_s + 2, k)
      opp4 == SetIndex(opp3, k, ghost_s + 2)
  IN [s_newstart_r |-> start3, s_newopposite_s |-> opp4, visited |-> Push(st.visited, s)]

\* The loop of lines 141-158; visited records the sides in the order taken.
RECURSIVE GhostLoop(_, _, _, _, _, _, _)
GhostLoop(i, s, numSolidSides, numUnpairedSides, ghost_r, r_unpaired_s, st) ==
  IF i < numUnpairedSides
  THEN LET st2 == GhostBody(i, s, numSolidSides, numUnpairedSides, ghost_r, st)
       IN GhostLoop(i + 1, next_unpaired(r_unpaired_s, st2.s_newstart_r, s),
                    numSolidSides, numUnpairedSides, ghost_r, r_unpaired_s, st2)
  ELSE st

GhostResult(g) ==
  LET numSolidSides == Len0(g._triangles)
      numUnpairedSides == Cardinality(UnpairedSides(g._halfedges))
      n == numSolidSides + 3 * numUnpairedSides
  IN GhostLoop(0, Scan_firstUnpairedEdge(g._halfedges), numSolidSides, numUnpairedSides,
               Len0(g._r_vertex), Scan_r_unpaired_s(g._triangles, g._halfedges),
               [s_newstart_r |-> Int32ArrayFrom(n, g._triangles),
                s_newopposite_s |-> Int32ArrayFrom(n, g._halfedges),
                visited |-> <<>>])

addGhostStructure(g) ==
  [numSolidSides |-> Len0(g._triangles),
   _r_vertex |-> r_newvertex(g._r_vertex),
   _triangles |-> GhostResult(g).s_newstart_r,
   _halfedges |-> GhostResult(g).s_newopposite_s]

-----------------------------------------------------------------------------
\* TriangleMesh.ts

\* A dual-vertex coordinate p/q + 10 * e / sqrt(d), as <<p, q, e, d>>.
Zero == <<0, 1, 0, 1>>

\* The field initialisers of the class (lines 43-56).
NoMesh ==
  [numSides |-> 0, numSolidSides |-> 0, numRegions |-> 0, numSolidRegions |-> 0,
   numTriangles |-> 0, numSolidTriangles |-> 0, numBoundaryRegions |-> 0,
   _r_in_s |-> <<>>, _halfedges |-> <<>>, _triangles |-> <<>>,
   _t_vertex |-> <<>>, _r_vertex |-> <<>>]

s_begin_r(m, s) == Index(m._triangles, s)
s_end_r(m, s) == Index(m._triangles, s_next_s(s))
s_inner_t(m, s) == s_to_t(s)
s_outer_t(m, s) == s_to_t(Index(m._halfedges, s))
s_opposite_s(m, s) == Index(m._halfedges, s)
ghost_r(m) == m.numRegions - 1
s_ghost(m, s) == s >= m.numSolidSides
r_ghost(m, r) == r = m.numRegions - 1
t_ghost(m, t) == s_ghost(m, 3 * t)

endpoint_begin(_triangles, s) == Index(_triangles, s)

\* const endpoint = _triangles[TriangleMesh.s_next_s(s)]
endpoint_of(_triangles, s) == Index(_triangles, s_next_s(s))

\* The scan of lines 124-129 from side s on.
RECURSIVE Scan_r_in_s(_, _, _, _)
Scan_r_in_s(s, _r_in_s, _triangles, _halfedges) ==
  IF s < Len0(_triangles)
  THEN LET endpoint == endpoint_of(_triangles, s)
       IN Scan_r_in_s(s + 1,
                      IF At(_r_in_s, endpoint) = 0 \/ _halfedges[s] = -1
                      THEN SetIndex(_r_in_s, IF endpoint = undefined THEN 0 ELSE endpoint, s)
                      ELSE _r_in_s,
                      _triangles, _halfedges)
  ELSE _r_in_s

extend_always(_t_vertex, numTriangles) ==
  Concat(_t_vertex, [t \in 0..(numTriangles - 1) |-> <<Zero, Zero>>])

\* Lines 110-119: _t_vertex grown with [0, 0] entries up to numTriangles.
extend_t_vertex(_t_vertex, numTriangles) ==
  IF Len0(_t_vertex) < numTriangles
  THEN Concat(_t_vertex, [t \in 0..(numTriangles - Len0(_t_vertex) - 1) |-> <<Zero, Zero>>])
  ELSE _t_vertex

\* Lines 132-149: the dual vertex of the triangle whose first side is s.
DualVertex(m, s) ==
  LET a == m._r_vertex[m._triangles[s]]
      b == m._r_vertex[m._triangles[s + 1]]
      c == m._r_vertex[m._triangles[s + 2]]
      dx == b[1] - a[1]
      dy == b[2] - a[2]
  IN IF s_ghost(m, s)
     THEN <<<<a[1] + b[1], 2 * CoordDen, dy, dx * dx + dy * dy>>,
            <<a[2] + b[2], 2 * CoordDen, -dx, dx * dx + dy * dy>>>>
     ELSE <<<<a[1] + b[1] + c[1], 3 * CoordDen, 0, 1>>,
            <<a[2] + b[2] + c[2], 3 * CoordDen, 0, 1>>>>

\* _update() on the mesh m, whose input fields are already assigned.
_update(m) ==
  LET numSides == Len0(m._triangles)
      numRegions == Len0(m._r_vertex)
      numTriangles == numSides \div 3
      extended == extend_t_vertex(m._t_vertex, numTriangles)
  IN [m EXCEPT
        !.numSides = numSides,
        !.numRegions = numRegions,
        !.numSolidRegions = numRegions - 1,
        !.numTriangles = numTriangles,
        !.numSolidTriangles = m.numSolidSides \div 3,
        !._r_in_s = Scan_r_in_s(0, [r \in 0..(numRegions - 1) |-> 0],
                                m._triangles, m._halfedges),
        !._t_vertex = [t \in DOMAIN extended |->
                         IF t < numTriangles THEN DualVertex(m, 3 * t) ELSE extended[t]]]

\* new TriangleMesh(partial)
TriangleMesh(partial) ==
  _update([NoMesh EXCEPT
             !.numBoundaryRegions = partial.numBoundaryRegions,
             !.numSolidSides = partial.numSolidSides,
             !._r_vertex = partial._r_vertex,
             !._triangles = partial._triangles,
             !._halfedges = partial._halfedges,
             !._t_vertex = <<>>])

\* update(points, delaunator)
update(m, pts, delaunator) ==
  _update([m EXCEPT
             !._r_vertex = pts,
             !._triangles = delaunator.triangles,
             !._halfedges = delaunator.halfedges])

push_end_r(m, incoming) == s_end_r(m, incoming)

push_outer_t(m, incoming) == s_outer_t(m, incoming)

\* What each circulation pushes for the incoming side (lines 246, 261, 276).
PushedBy_s(m, incoming) == At(m._halfedges, incoming)
PushedBy_r(m, incoming) == s_begin_r(m, incoming)
PushedBy_t(m, incoming) == s_to_t(incoming)

\* The next incoming side (lines 247-248, 262-263, 277-278).
NextIncoming_s(m, incoming) == At(m._halfedges, s_next_s(incoming))
NextIncoming_rt(m, incoming) == Index(m._halfedges, s_next_s(incoming))

\* The loop conditions (lines 249, 264, 279).
Continues_s(incoming, s0) == incoming # -1 /\ incoming # s0 /\ incoming # undefined
Continues_rt(incoming, s0) == incoming # -1 /\ incoming # s0

-----------------------------------------------------------------------------
\* The state: one MeshBuilder, the triangulation create() obtained, and the
\* TriangleMesh it returned, with the circulation in progress on it.

VARIABLES
  boundarySpacing,      \* the constructor's option
  points,               \* MeshBuilder.points
  numBoundaryRegions,   \* MeshBuilder.numBoundaryRegions
  graph,                \* create(): the triangulator's output, before the ghosts
  mesh,                 \* the TriangleMesh
  visited,              \* create(): the unpaired sides, in the order the ghosts were made
  constructed,          \* the mesh as its constructor left it
  pc,                   \* "builder", "mesh", "loop", "returned" or "threw"
  call,                 \* the method called last
  arg_r,                \* r_circulate_*: the argument r
  s0,                   \* r_circulate_*: the start side
  incoming,             \* r_circulate_*: the loop variable
  out                   \* r_circulate_*: the output array

vars == <<boundarySpacing, points, numBoundaryRegions, graph, visited, mesh,
          constructed, pc, call, arg_r, s0, incoming, out>>

\* Inputs: a square, its centre and one more inner point, in 1/CoordDen.
Corner00 == <<0, 0>>
Corner40 == <<4, 0>>
Corner44 == <<4, 4>>
Corner04 == <<0, 4>>
Centre == <<2, 2>>
Inner == <<1, 2>>

\* A convex pentagon around the centre.
Penta0 == <<1, 0>>
Penta1 == <<4, 0>>
Penta2 == <<5, 3>>
Penta3 == <<2, 5>>
Penta4 == <<0, 3>>

\* The orders in which points are handed to addPoints; the third repeats a point.
PointOrders ==
  {Arr(<<Corner00, Corner40, Corner44, Corner04, Centre, Inner>>),
   Arr(<<Centre, Corner00, Corner44, Corner40, Corner04, Inner>>),
   Arr(<<Corner00, Corner40, Corner00, Corner04, Corner44, Centre>>),
   Arr(<<Penta3, Penta0, Penta2, Penta4, Penta1, Centre>>)}

BoundarySpacings == {0, 1000, 500}

NoGraph == [_r_vertex |-> <<>>, _triangles |-> <<>>, _halfedges |-> <<>>]

Circulations == {"r_circulate_s", "r_circulate_r", "r_circulate_t"}

MeshIdle == {"mesh", "returned", "threw"}

\* new MeshBuilder({ boundarySpacing })
Init ==
  /\ boundarySpacing \in BoundarySpacings
  /\ points = IF boundarySpacing > 0 THEN addBoundaryPoints(boundarySpacing, Size) ELSE <<>>
  /\ numBoundaryRegions = Len0(points)
  /\ graph = NoGraph
  /\ mesh = NoMesh
  /\ visited = <<>>
  /\ constructed = NoMesh
  /\ pc = "builder"
  /\ call = "constructor"
  /\ arg_r = undefined
  /\ s0 = undefined
  /\ incoming = undefined
  /\ out = <<>>

\* getNonBoundaryPoints()
getNonBoundaryPoints == Slice(points, numBoundaryRegions)

splice_from_zero(pts, n) == Splice(pts, 0, Len0(pts))

\* this.points.splice(this.numBoundaryRegions, this.points.length)
clearedPoints(pts, n) == Splice(pts, n, Len0(pts))

\* addPoints(newPoints)
AddPoints ==
  /\ pc = "builder"
  /\ \E o \in PointOrders, n \in 1..2 :
       LET cur == getNonBoundaryPoints
           have == Len0(cur)
           newPoints == [i \in 0..(n - 1) |-> o[have + i]]
       IN /\ have + n <= MaxPoints
          /\ have + n <= Len0(o)
          /\ \A i \in DOMAIN cur : o[i] = cur[i]
          /\ points' = Concat(points, newPoints)
  /\ call' = "addPoints"
  /\ UNCHANGED <<boundarySpacing, numBoundaryRegions, graph, visited, mesh,
                 constructed, pc, arg_r, s0, incoming, out>>

\* clearNonBoundaryPoints()
ClearNonBoundaryPoints ==
  /\ pc = "builder"
  /\ points' = clearedPoints(points, numBoundaryRegions)
  /\ call' = "clearNonBoundaryPoints"
  /\ UNCHANGED <<boundarySpacing, numBoundaryRegions, graph, visited, mesh,
                 constructed, pc, arg_r, s0, incoming, out>>

\* create(): triangulate, add the ghost structure, construct the mesh.
Create ==
  /\ pc = "builder"
  /\ Len0(points) <= MaxPoints
  /\ \E d \in Delaunator(points) :
       LET g == [_r_vertex |-> points, _triangles |-> d.triangles, _halfedges |-> d.halfedges]
           g2 == addGhostStructure(g)
           graph3 == [numSolidSides |-> g2.numSolidSides, _r_vertex |-> g2._r_vertex,
                      _triangles |-> g2._triangles, _halfedges |-> g2._halfedges,
                      numBoundaryRegions |-> numBoundaryRegions]
       IN /\ graph' = g
          /\ visited' = GhostResult(g).visited
          /\ mesh' = TriangleMesh(graph3)
          /\ constructed' = TriangleMesh(graph3)
  /\ pc' = "mesh"
  /\ call' = "create"
  /\ UNCHANGED <<boundarySpacing, points, numBoundaryRegions,
                 arg_r, s0, incoming, out>>

\* update(points, delaunator) with the arrays the mesh was constructed from;
\* it may be called again and again.
Update ==
  /\ pc \in MeshIdle
  /\ mesh' = update(mesh, constructed._r_vertex,
                    [triangles |-> constructed._triangles,
                     halfedges |-> constructed._halfedges])
  /\ pc' = "mesh"
  /\ call' = "update"
  /\ arg_r' = undefined
  /\ s0' = undefined
  /\ incoming' = undefined
  /\ out' = <<>>
  /\ UNCHANGED <<boundarySpacing, points, numBoundaryRegions, graph, visited, constructed>>

\* r_circulate_s / r_circulate_r / r_circulate_t (out, r), up to the loop:
\* the caller passes an empty array and a region, or an integer next to the
\* valid range or as far below zero as the array is long.
\* A circulation leaves the mesh as it is, so one after each construction or
\* update covers them all.
Circulate ==
  /\ pc = "mesh"
  /\ \E c \in Circulations,
        r \in (0..mesh.numRegions) \cup {-1, -mesh.numRegions, -(mesh.numRegions + 1)} :
       /\ call' = c
       /\ arg_r' = r
       /\ s0' = At(mesh._r_in_s, r)
  /\ incoming' = s0'
  /\ out' = <<>>
  /\ pc' = IF s0' = undefined THEN "threw" ELSE "loop"
  /\ UNCHANGED <<boundarySpacing, points, numBoundaryRegions, graph, visited, mesh,
                 constructed>>

Pushed(c, m, s) ==
  CASE c = "r_circulate_s" -> PushedBy_s(m, s)
    [] c = "r_circulate_r" -> PushedBy_r(m, s)
    [] OTHER -> PushedBy_t(m, s)

NextIncoming(c, m, s) ==
  IF c = "r_circulate_s" THEN NextIncoming_s(m, s) ELSE NextIncoming_rt(m, s)

Continues(c, s, start) ==
  IF c = "r_circulate_s" THEN Continues_s(s, start) ELSE Continues_rt(s, start)

\* The do-while loop of a circulation from the pass that handles incoming on,
\* at most fuel passes of it.
RECURSIVE CirculateLoop(_, _, _, _, _, _)
CirculateLoop(c, m, start, inc, acc, fuel) ==
  IF fuel = 0
  THEN acc
  ELSE LET pushed == Push(acc, Pushed(c, m, inc))
           nxt == NextIncoming(c, m, inc)
       IN IF Continues(c, nxt, start)
          THEN CirculateLoop(c, m, start, nxt, pushed, fuel - 1)
          ELSE pushed

\* The list a circulation c called with an empty array and region r returns
\* (undefined where it throws), within MaxSteps passes.
r_circulate(c, m, r) ==
  LET start == At(m._r_in_s, r)
  IN IF start = undefined
     THEN undefined
     ELSE CirculateLoop(c, m, start, start, <<>>, MaxSteps)

\* One pass of the do-while body and its test.
Step ==
  /\ pc = "loop"
  /\ Len0(out) < MaxSteps
  /\ out' = Push(out, Pushed(call, mesh, incoming))
  /\ incoming' = NextIncoming(call, mesh, incoming)
  /\ pc' = IF Continues(call, incoming', s0) THEN "loop" ELSE "returned"
  /\ UNCHANGED <<boundarySpacing, points, numBoundaryRegions, graph, visited, mesh,
                 constructed, call, arg_r, s0>>

Next ==
  \/ AddPoints
  \/ ClearNonBoundaryPoints
  \/ Create
  \/ Update
  \/ Circulate
  \/ Step

Spec == Init /\ [][Next]_vars

-----------------------------------------------------------------------------
\* Vocabulary of the properties.

HasMesh == pc # "builder"

Sides == 0..(mesh.numSides - 1)

Regions == 0..(mesh.numRegions - 1)

\* The sides the triangulator left unpaired, and their number U.
HullSides == UnpairedSides(graph._halfedges)

NumUnpaired == Cardinality(HullSides)

\* The regions that begin an originally unpaired side.
HullRegions == {graph._triangles[s] : s \in HullSides}

\* The number of sides that begin at r.
Degree(r) == Cardinality({s \in Sides : s_begin_r(mesh, s) = r})

InCirculation(c) == pc \in {"loop", "returned"} /\ call = c

OutSet == {out[i] : i \in DOMAIN out}

OutInjective == \A i, j \in DOMAIN out : out[i] = out[j] => i = j

\* The 5-point input: the four corners of a square and its centre, no boundary.
FivePointInput ==
  /\ boundarySpacing = 0
  /\ Len0(points) = 5
  /\ {points[i] : i \in DOMAIN points} = {Corner00, Corner40, Corner44, Corner04, Centre}

CornerRegions == {i \in DOMAIN points : points[i] # Centre}

-----------------------------------------------------------------------------
\* C1: in every mesh returned by create(), every side has an opposite that
\* is a side of the mesh (never -1), and the opposite of the opposite is the
\* side itself.
C1_OppositeInvolution ==
  HasMesh =>
    \A s \in Sides :
      /\ s_opposite_s(mesh, s) \in Sides
      /\ s_opposite_s(mesh, s_opposite_s(mesh, s)) = s

\* A mesh of two solid triangles and their four ghost triangles.
C1_Witness ==
  /\ HasMesh
  /\ mesh.numSolidSides = 6
  /\ mesh.numSides = 18

\* C2: in every mesh returned by create(), every side, solid or ghost, begins
\* where its opposite ends, and the side after it begins where its opposite
\* begins.
C2_BeginEndOpposite ==
  HasMesh =>
    \A s \in Sides :
      /\ s_begin_r(mesh, s) = s_end_r(mesh, s_opposite_s(mesh, s))
      /\ s_begin_r(mesh, s_next_s(s)) = s_begin_r(mesh, s_opposite_s(mesh, s))

\* The mesh of the 5-point input, right after create().
C2_Witness ==
  /\ pc = "mesh"
  /\ call = "create"
  /\ FivePointInput
  /\ mesh.numSides = 24

\* C3: r_circulate_s(r), for a region r with at least one incident side (the
\* ghost region included), runs its loop body at most degree(r) + 1 times,
\* leaves the loop because it is back at its start side, and returns only
\* sides that begin at r.
C3_CirculateSides ==
  (InCirculation("r_circulate_s") /\ arg_r \in Regions /\ Degree(arg_r) >= 1) =>
    /\ Len0(out) <= Degree(arg_r) + 1
    /\ pc = "loop" => Len0(out) < Degree(arg_r) + 1
    /\ pc = "returned" => incoming = s0
    /\ \A i \in DOMAIN out : out[i] \in Sides /\ s_begin_r(mesh, out[i]) = arg_r

\* r_circulate_s has returned the sides around the ghost region of a mesh
\* with four hull sides.
C3_Witness ==
  /\ pc = "returned"
  /\ call = "r_circulate_s"
  /\ arg_r = ghost_r(mesh)
  /\ NumUnpaired = 4
  /\ Len0(out) = 4

C5_OutOfRangeThrows ==
  (HasMesh /\ call \in Circulations /\ arg_r \notin Regions) => pc = "threw"

\* C6: update() with the points, triangles and opposites the mesh was
\* constructed from, any number of times, leaves the representative sides,
\* the dual vertices and the element counts as the constructor left them.
C6_UpdateIdempotent ==
  HasMesh =>
    /\ mesh._r_in_s = constructed._r_in_s
    /\ mesh._t_vertex = constructed._t_vertex
    /\ mesh.numSides = constructed.numSides
    /\ mesh.numSolidSides = constructed.numSolidSides
    /\ mesh.numRegions = constructed.numRegions
    /\ mesh.numSolidRegions = constructed.numSolidRegions
    /\ mesh.numTriangles = constructed.numTriangles
    /\ mesh.numSolidTriangles = constructed.numSolidTriangles

\* A mesh with solid and ghost triangles on which update() has just run.
C6_Witness ==
  /\ call = "update"
  /\ mesh.numSolidTriangles >= 2
  /\ mesh.numTriangles > mesh.numSolidTriangles

\* C7: whatever addPoints and clearNonBoundaryPoints calls were made,
\* numBoundaryRegions is the number of boundary points the constructor
\* generated and the point list begins with them, in order; right after
\* clearNonBoundaryPoints the list is exactly them and getNonBoundaryPoints()
\* is empty.
C7_BoundaryKept ==
  LET boundaryPoints ==
        IF boundarySpacing > 0 THEN addBoundaryPoints(boundarySpacing, Size) ELSE <<>>
  IN /\ numBoundaryRegions = Len0(boundaryPoints)
     /\ Len0(points) >= numBoundaryRegions
     /\ \A i \in DOMAIN boundaryPoints : points[i] = boundaryPoints[i]
     /\ call = "clearNonBoundaryPoints" =>
          (points = boundaryPoints /\ getNonBoundaryPoints = <<>>)

\* Points were added to a builder with 12 boundary points.
C7_Witness ==
  /\ call = "addPoints"
  /\ numBoundaryRegions = 12
  /\ Len0(points) = 15

\* C8 as stated: with no unpaired side, addGhostStructure appends nothing to
\* the points, the triangles or the opposites.
C8_AsStated ==
  (HasMesh /\ NumUnpaired = 0) =>
    /\ mesh._r_vertex = graph._r_vertex
    /\ mesh._triangles = graph._triangles
    /\ mesh._halfedges = graph._halfedges

\* C8, amended: with no unpaired side the triangles and the opposites are
\* returned as they came, and the point list gets the ghost point appended.
C8_OnlyGhostPoint ==
  (HasMesh /\ NumUnpaired = 0) =>
    /\ mesh._r_vertex = Concat(graph._r_vertex, Arr(<<GhostPoint>>))
    /\ mesh.numRegions = Len0(graph._r_vertex) + 1
    /\ mesh._triangles = graph._triangles
    /\ mesh._halfedges = graph._halfedges

\* A mesh created from three collinear points: no triangle, no unpaired side.
C8_Witness ==
  /\ HasMesh
  /\ NumUnpaired = 0
  /\ Len0(points) = 3

\* C9 as stated: side2 of ghost triangle i is the mutual opposite of side2 of
\* the next ghost triangle of the ring.
C9_AsStated ==
  HasMesh =>
    \A i \in 0..(NumUnpaired - 1) :
      LET side2 == mesh.numSolidSides + 3 * i + 2
          next2 == mesh.numSolidSides + 3 * ((i + 1) % NumUnpaired) + 2
      IN /\ s_opposite_s(mesh, side2) = next2
         /\ s_opposite_s(mesh, next2) = side2

\* C9, amended: side2 of ghost triangle i is the mutual opposite of side1 of
\* the next ghost triangle of the ring.
C9_Side2PairsNextSide1 ==
  HasMesh =>
    \A i \in 0..(NumUnpaired - 1) :
      LET side2 == mesh.numSolidSides + 3 * i + 2
          next1 == mesh.numSolidSides + 3 * ((i + 1) % NumUnpaired) + 1
      IN /\ s_opposite_s(mesh, side2) = next1
         /\ s_opposite_s(mesh, next1) = side2

\* A mesh with a ring of three ghost triangles.
C9_Witness ==
  /\ HasMesh
  /\ NumUnpaired = 3
  /\ mesh.numSides = mesh.numSolidSides + 9

\* C10 as stated: ghost triangle i, made for the i-th unpaired side s, has
\* side0 the mutual opposite of s, side1 beginning at end_r(s) and side2
\* beginning at the ghost region.
C10_AsStated ==
  HasMesh =>
    \A i \in 0..(NumUnpaired - 1) :
      LET s == visited[i]
          ghost_s == mesh.numSolidSides + 3 * i
      IN /\ s_opposite_s(mesh, s) = ghost_s
         /\ s_opposite_s(mesh, ghost_s) = s
         /\ s_begin_r(mesh, ghost_s + 1) = s_end_r(mesh, s)
         /\ s_begin_r(mesh, ghost_s + 2) = ghost_r(mesh)

\* C10, amended: side0 is the mutual opposite of s and begins at end_r(s),
\* side1 begins at begin_r(s), side2 begins at the ghost region.
C10_GhostTriangle ==
  HasMesh =>
    \A i \in 0..(NumUnpaired - 1) :
      LET s == visited[i]
          ghost_s == mesh.numSolidSides + 3 * i
      IN /\ s \in HullSides
         /\ s_opposite_s(mesh, s) = ghost_s
         /\ s_opposite_s(mesh, ghost_s) = s
         /\ s_begin_r(mesh, ghost_s) = s_end_r(mesh, s)
         /\ s_begin_r(mesh, ghost_s + 1) = s_begin_r(mesh, s)
         /\ s_begin_r(mesh, ghost_s + 2) = ghost_r(mesh)

\* A mesh of six solid sides whose four unpaired sides were all visited.
C10_Witness ==
  /\ HasMesh
  /\ NumUnpaired = 4
  /\ Len0(visited) = 4
  /\ mesh.numSolidSides = 6

\* The sides that end at region r.
SidesEndingAt(r) == {s \in Sides : s_end_r(mesh, s) = r}

\* C11: in a constructed mesh, for every region r with a side ending at it,
\* _r_in_s[r] is the lowest-index side that ends at r: a side scanned later
\* never replaces a representative already recorded.
C11_FirstWriteWins ==
  HasMesh =>
    \A r \in Regions :
      SidesEndingAt(r) # {} =>
        /\ mesh._r_in_s[r] \in SidesEndingAt(r)
        /\ \A s \in SidesEndingAt(r) : mesh._r_in_s[r] <= s

\* C12: in every constructed mesh, for every region r with at least one
\* incident side, r_circulate_s(r), r_circulate_r(r) and r_circulate_t(r)
\* return lists of one length, aligned position by position: out_r[i] is
\* s_end_r(out_s[i]) and is never r, out_t[i] is s_outer_t(out_s[i]), and
\* out_s holds every side that begins at r exactly once. The list a call
\* has returned is the list compared here.
C12_AlignedCirculations ==
  /\ HasMesh =>
       \A r \in Regions :
         Degree(r) >= 1 =>
           LET out_s == r_circulate("r_circulate_s", mesh, r)
               out_r == r_circulate("r_circulate_r", mesh, r)
               out_t == r_circulate("r_circulate_t", mesh, r)
           IN /\ Len0(out_s) = Degree(r)
              /\ Len0(out_r) = Len0(out_s)
              /\ Len0(out_t) = Len0(out_s)
              /\ {out_s[i] : i \in DOMAIN out_s} = {s \in Sides : s_begin_r(mesh, s) = r}
              /\ \A i \in DOMAIN out_s :
                   /\ out_r[i] = s_end_r(mesh, out_s[i])
                   /\ out_r[i] # r
                   /\ out_t[i] = s_outer_t(mesh, out_s[i])
  /\ (pc = "returned" /\ arg_r \in Regions /\ Degree(arg_r) >= 1) =>
       out = r_circulate(call, mesh, arg_r)

\* r_circulate_t has returned the four triangles around the centre of the
\* 5-point input, and the side and region circulations of it have four
\* entries as well.
C12_Witness ==
  /\ pc = "returned"
  /\ call = "r_circulate_t"
  /\ FivePointInput
  /\ arg_r \in DOMAIN points
  /\ points[arg_r] = Centre
  /\ Len0(out) = 4
  /\ Len0(r_circulate("r_circulate_s", mesh, arg_r)) = 4
  /\ Len0(r_circulate("r_circulate_r", mesh, arg_r)) = 4

====
